---------------------------- MODULE Spec2Model ----------------------------
(***************************************************************************)
(* Astronomical Darkness Calculator (src/app.py).                          *)
(*                                                                         *)
(* The model follows one run of main() (the Streamlit script) and one call *)
(* of compute_day_details().  Time is counted in whole minutes since the   *)
(* midnight (UTC) of date 0; a date is its day number.  Altitudes are      *)
(* whole degrees; a mean of two altitudes is kept as twice the mean, so    *)
(* that "(a + b)/2 < -18.0" is the exact test  a + b < -36.  Phase angles  *)
(* are counted in half degrees, so that 22.5 degrees is the integer 45.    *)
(* The ephemeris (skyfield) and the timezone database (pytz,               *)
(* timezonefinder) are inputs of the run: Init draws them from bounded     *)
(* families.                                                               *)
(***************************************************************************)
EXTENDS Integers, Sequences, FiniteSets, TLC

VARIABLES
    entry,              \* "main": the script runs; "direct": compute_day_details
                        \* is called as a function; "icon": moon_phase_icon is
    pc,                 \* the control point of the run
    selected_dates,     \* st.session_state["selected_dates"]
    calculate_button,   \* st.button("Calculate")
    moon_affect,        \* the "Moon Influence on Darkness" choice
    step_minutes,       \* the "Time Accuracy (Mins)" choice, as minutes
    tz_lookup,          \* what TimezoneFinder.timezone_at(lat, lon) returns
    world,              \* the ephemeris seen from (lat, lon)
    progress_console,   \* st.session_state["progress_console"], as lines
    shown,              \* st.error / st.warning messages shown so far
    start_date,         \* arguments and locals of compute_day_details
    end_date,
    local_tz,
    total_days,
    loop_index,
    day_count,
    current,
    start_utc,
    end_utc,
    astro_minutes,
    moonless_minutes,
    phase_angle,
    moon_phase,
    day_results,
    total_astro,        \* locals of main after the call
    total_moonless,
    totals_shown,
    table

vars == <<entry, pc, selected_dates, calculate_button, moon_affect, step_minutes,
          tz_lookup, world, progress_console, shown, start_date, end_date,
          local_tz, total_days, loop_index, day_count, current, start_utc,
          end_utc, astro_minutes, moonless_minutes, phase_angle, moon_phase,
          day_results, total_astro, total_moonless, totals_shown, table>>

(***************************************************************************)
(* Configuration block and fixed choices of the script.                    *)
(***************************************************************************)
MAX_DAYS == 30

DAY_MINUTES == 24 * 60

step_options == {1, 2, 5, 15, 30}

moon_options == {"Include Moonlight", "Ignore Moonlight"}

SUN_DARK == -18

MOON_UP == 0

(***************************************************************************)
(* Bounds of the model.                                                    *)
(***************************************************************************)
MaxStart == 2           \* start dates are 1..MaxStart

MaxDate == 32           \* end dates are 1..MaxDate

DstStartDate == 3       \* the date daylight saving time starts in a DST zone

DstEndDate == 6         \* the date it ends

NBlocks == 3            \* pieces of an altitude curve

SunBlockMinutes == 490  \* minutes a piece of the Sun curve lasts

MoonBlockMinutes == 500 \* minutes a piece of the Moon curve lasts

MaxPhase == 1500        \* phase angles tried are -MaxPhase..MaxPhase half degrees

Min(a, b) == IF a < b THEN a ELSE b

Max(a, b) == IF a > b THEN a ELSE b


(***************************************************************************)
(* Time zones.  TimezoneFinder.timezone_at returns a zone name or None;    *)
(* pytz.timezone raises UnknownTimeZoneError on a name it does not know.   *)
(* A zone is its standard offset (minutes east of UTC), whether it keeps   *)
(* daylight saving time, and the local standard time of day (minutes) at   *)
(* which its clocks change: 02:00 in Europe/Berlin, 00:00 in               *)
(* America/Havana, whose local midnight therefore does not exist on the    *)
(* day DST starts and occurs twice on the day it ends.  Model/NoonShift is *)
(* a zone made up to change its clocks at 12:00, the one way localizing a  *)
(* local noon can raise.                                                   *)
(***************************************************************************)
NoZone == "None"

TzLookups ==
    {NoZone, "Unknown/Zone", "Asia/Dubai", "Europe/Berlin", "America/Havana",
     "Model/NoonShift"}

UTC == [name |-> "UTC", std |-> 0, dst |-> FALSE, at |-> 0]

KnownZones == {
    UTC,
    [name |-> "Asia/Dubai", std |-> 240, dst |-> FALSE, at |-> 0],
    [name |-> "Europe/Berlin", std |-> 60, dst |-> TRUE, at |-> 120],
    [name |-> "America/Havana", std |-> -300, dst |-> TRUE, at |-> 0],
    [name |-> "Model/NoonShift", std |-> 0, dst |-> TRUE, at |-> 12 * 60] }

\* pytz.timezone(tz_name): the zone, or the exception raised
pytz_timezone(tz_name) ==
    IF \E z \in KnownZones : z.name = tz_name
    THEN [exc |-> "", value |-> CHOOSE z \in KnownZones : z.name = tz_name]
    ELSE [exc |-> "UnknownTimeZoneError", value |-> UTC]

\* the naive local time (date, minute of the day) as minutes
Naive(date, minute) == date * DAY_MINUTES + minute

\* the local wall-clock times skipped when DST starts, and repeated when it ends
NonExistent(z, naive) ==
    /\ z.dst
    /\ Naive(DstStartDate, z.at) <= naive
    /\ naive < Naive(DstStartDate, z.at) + 60

Ambiguous(z, naive) ==
    /\ z.dst
    /\ Naive(DstEndDate, z.at) <= naive
    /\ naive < Naive(DstEndDate, z.at) + 60

\* the offset in force at a local wall-clock time that names one instant
OffsetAtLocal(z, naive) ==
    IF /\ z.dst
       /\ Naive(DstStartDate, z.at) + 60 <= naive
       /\ naive < Naive(DstEndDate, z.at)
    THEN z.std + 60
    ELSE z.std

\* the offset in force at a UTC instant
OffsetAtUtc(z, t) ==
    IF /\ z.dst
       /\ Naive(DstStartDate, z.at) - z.std <= t
       /\ t < Naive(DstEndDate, z.at) - z.std
    THEN z.std + 60
    ELSE z.std

\* tz.localize(naive, is_dst=None).astimezone(pytz.utc): the UTC instant, or
\* the exception pytz raises
localize(z, naive) ==
    IF NonExistent(z, naive) THEN [exc |-> "NonExistentTimeError", value |-> 0]
    ELSE IF Ambiguous(z, naive) THEN [exc |-> "AmbiguousTimeError", value |-> 0]
    ELSE [exc |-> "", value |-> naive - OffsetAtLocal(z, naive)]

\* "%02d"
TwoDigits(n) == IF n < 10 THEN "0" \o ToString(n) ELSE ToString(n)

\* t.utc_datetime().astimezone(local_tz).strftime("%H:%M")
strftime_HM(z, t) ==
    LET m == (t + OffsetAtUtc(z, t)) % DAY_MINUTES
    IN  TwoDigits(m \div 60) \o ":" \o TwoDigits(m % 60)

(***************************************************************************)
(* The ephemeris.  A world gives the Sun's and the Moon's altitude as step *)
(* curves of NBlocks pieces that repeat, and the ecliptic longitudes of    *)
(* both at date 0 (half degrees); the Sun moves 1 degree a day along the   *)
(* ecliptic and the Moon 13.                                               *)
(***************************************************************************)
SunVals == {-19, -18}

MoonVals == {-1, 0}

SunCurves == [1..NBlocks -> SunVals]

MoonCurves == [1..NBlocks -> MoonVals]

sun_alt_deg(w, t) == w.sun[((t \div SunBlockMinutes) % Len(w.sun)) + 1]

moon_alt_deg(w, t) == w.moon[((t \div MoonBlockMinutes) % Len(w.moon)) + 1]

sun_ecl_lon(w, t) == (w.sun_lon + 2 * (t \div DAY_MINUTES)) % 720

moon_ecl_lon(w, t) == (w.moon_lon + 26 * (t \div DAY_MINUTES)) % 720


(***************************************************************************)
(* One day of compute_day_details.  c is the day's context: the lists      *)
(* times_list, sun_alts and moon_alts, the step, the moon choice and the   *)
(* zone used to print times.                                               *)
(*                                                                         *)
(* A for loop over lo..hi-1 is run first half, then second half, passing   *)
(* the loop's variables on; brk records that the loop has left by break.   *)
(***************************************************************************)
step_count(step) == DAY_MINUTES \div step

\* lines 237-240; element i of a Python list is element i + 1 of the sequence
TimesList(start, step) ==
    [k \in 1..(step_count(step) + 1) |-> start + (k - 1) * step]

\* lines 242-248
SunAlts(w, times) == [k \in 1..Len(times) |-> sun_alt_deg(w, times[k])]

MoonAlts(w, times) == [k \in 1..Len(times) |-> moon_alt_deg(w, times[k])]

times_list(c, i) == c.times_list[i + 1]

sun_alts(c, i) == c.sun_alts[i + 1]

moon_alts(c, i) == c.moon_alts[i + 1]

\* twice the mean of two altitudes
Mid2(a, b) == a + b

\* SumBody with the moonless count taken outside the darkness test
SumBodyMoonOutside(c, i, st) ==
    LET s_mid2 == Mid2(sun_alts(c, i), sun_alts(c, i + 1))
        m_mid2 == Mid2(moon_alts(c, i), moon_alts(c, i + 1))
    IN  [st EXCEPT
            !.astro_minutes = IF s_mid2 < 2 * SUN_DARK THEN @ + c.step ELSE @,
            !.moonless_minutes =
                IF c.moon_affect = "Ignore Moonlight"
                THEN (IF s_mid2 < 2 * SUN_DARK THEN @ + c.step ELSE @)
                ELSE IF m_mid2 < 2 * MOON_UP THEN @ + c.step ELSE @]

\* SumBody with the two moon choices exchanged
SumBodyChoicesSwapped(c, i, st) ==
    LET s_mid2 == Mid2(sun_alts(c, i), sun_alts(c, i + 1))
        m_mid2 == Mid2(moon_alts(c, i), moon_alts(c, i + 1))
    IN  IF s_mid2 < 2 * SUN_DARK
        THEN [st EXCEPT
                !.astro_minutes = @ + c.step,
                !.moonless_minutes =
                    IF c.moon_affect = "Include Moonlight"
                    THEN @ + c.step
                    ELSE IF m_mid2 < 2 * MOON_UP THEN @ + c.step ELSE @]
        ELSE st

\* SumBody testing the Moon's altitude at the later sample, not the mean
SumBodyMoonEndpoint(c, i, st) ==
    LET s_mid2 == Mid2(sun_alts(c, i), sun_alts(c, i + 1))
    IN  IF s_mid2 < 2 * SUN_DARK
        THEN [st EXCEPT
                !.astro_minutes = @ + c.step,
                !.moonless_minutes =
                    IF c.moon_affect = "Ignore Moonlight"
                    THEN @ + c.step
                    ELSE IF moon_alts(c, i + 1) < MOON_UP THEN @ + c.step ELSE @]
        ELSE st

\* the body of the summation loop
\* SumBody testing the first sample of the pair instead of the mean
SumBodySunEndpoint(c, i, st) ==
    LET m_mid2 == Mid2(moon_alts(c, i), moon_alts(c, i + 1))
    IN  IF sun_alts(c, i) < SUN_DARK
        THEN [st EXCEPT
                !.astro_minutes = @ + c.step,
                !.moonless_minutes =
                    IF c.moon_affect = "Ignore Moonlight"
                    THEN @ + c.step
                    ELSE IF m_mid2 < 2 * MOON_UP THEN @ + c.step ELSE @]
        ELSE st

SumBody(c, i, st) ==
    LET s_mid2 == Mid2(sun_alts(c, i), sun_alts(c, i + 1))
        m_mid2 == Mid2(moon_alts(c, i), moon_alts(c, i + 1))
    IN  IF s_mid2 < 2 * SUN_DARK
        THEN [st EXCEPT
                !.astro_minutes = @ + c.step,
                !.moonless_minutes =
                    IF c.moon_affect = "Ignore Moonlight"
                    THEN @ + c.step
                    ELSE IF m_mid2 < 2 * MOON_UP THEN @ + c.step ELSE @]
        ELSE st

RECURSIVE SumLoop(_, _, _, _)
SumLoop(c, lo, hi, st) ==
    IF hi <= lo THEN st
    ELSE IF hi = lo + 1 THEN SumBody(c, lo, st)
    ELSE LET mid == (lo + hi) \div 2
             half == SumLoop(c, lo, mid, st)
         IN  IF half.brk THEN half ELSE SumLoop(c, mid, hi, half)

Summation(c) ==
    SumLoop(c, 0, Len(c.times_list) - 1,
            [astro_minutes |-> 0, moonless_minutes |-> 0, brk |-> FALSE])


\* CrossBody stamping a crossing with the earlier sample of its pair
CrossBodyEarlierSample(c, i, st) ==
    IF sun_alts(c, i) >= SUN_DARK /\ sun_alts(c, i + 1) < SUN_DARK /\ ~st.found_start
    THEN [st EXCEPT !.start_str = strftime_HM(c.tz, times_list(c, i)),
                    !.found_start = TRUE]
    ELSE IF /\ sun_alts(c, i) < SUN_DARK /\ sun_alts(c, i + 1) >= SUN_DARK
            /\ st.found_start /\ st.end_str = "-"
    THEN [st EXCEPT !.end_str = strftime_HM(c.tz, times_list(c, i)),
                    !.brk = TRUE]
    ELSE st

\* CrossBody taking a sample at -18 degrees for a dark one
CrossBodyAtThreshold(c, i, st) ==
    IF sun_alts(c, i) >= SUN_DARK /\ sun_alts(c, i + 1) <= SUN_DARK /\ ~st.found_start
    THEN [st EXCEPT !.start_str = strftime_HM(c.tz, times_list(c, i + 1)),
                    !.found_start = TRUE]
    ELSE IF /\ sun_alts(c, i) < SUN_DARK /\ sun_alts(c, i + 1) >= SUN_DARK
            /\ st.found_start /\ st.end_str = "-"
    THEN [st EXCEPT !.end_str = strftime_HM(c.tz, times_list(c, i + 1)),
                    !.brk = TRUE]
    ELSE st

\* find_dark_crossings: the body of the first scan
CrossBody(c, i, st) ==
    IF sun_alts(c, i) >= SUN_DARK /\ sun_alts(c, i + 1) < SUN_DARK /\ ~st.found_start
    THEN [st EXCEPT !.start_str = strftime_HM(c.tz, times_list(c, i + 1)),
                    !.found_start = TRUE]
    ELSE IF /\ sun_alts(c, i) < SUN_DARK /\ sun_alts(c, i + 1) >= SUN_DARK
            /\ st.found_start /\ st.end_str = "-"
    THEN [st EXCEPT !.end_str = strftime_HM(c.tz, times_list(c, i + 1)),
                    !.brk = TRUE]
    ELSE st

RECURSIVE CrossLoop(_, _, _, _)
CrossLoop(c, lo, hi, st) ==
    IF hi <= lo THEN st
    ELSE IF hi = lo + 1 THEN CrossBody(c, lo, st)
    ELSE LET mid == (lo + hi) \div 2
             half == CrossLoop(c, lo, mid, st)
         IN  IF half.brk THEN half ELSE CrossLoop(c, mid, hi, half)

\* find_dark_crossings: the body of the second scan, from the first sample again
RescanBody(c, i, st) ==
    IF sun_alts(c, i) < SUN_DARK /\ sun_alts(c, i + 1) >= SUN_DARK
    THEN [st EXCEPT !.end_str = strftime_HM(c.tz, times_list(c, i + 1)),
                    !.brk = TRUE]
    ELSE st

RECURSIVE RescanLoop(_, _, _, _)
RescanLoop(c, lo, hi, st) ==
    IF hi <= lo THEN st
    ELSE IF hi = lo + 1 THEN RescanBody(c, lo, st)
    ELSE LET mid == (lo + hi) \div 2
             half == RescanLoop(c, lo, mid, st)
         IN  IF half.brk THEN half ELSE RescanLoop(c, mid, hi, half)

\* find_dark_crossings(sun_alts, times_list, local_tz), N = len(sun_alts)
find_dark_crossings(c, N) ==
    LET first == CrossLoop(c, 0, N - 1,
                    [start_str |-> "-", end_str |-> "-",
                     found_start |-> FALSE, brk |-> FALSE])
        second == IF first.found_start /\ first.end_str = "-"
                  THEN RescanLoop(c, 0, N - 1, [first EXCEPT !.brk = FALSE])
                  ELSE first
    IN  <<second.start_str, second.end_str>>

\* MoonBody looking for the set only once the rise is found
MoonBodyPaired(c, i, st) ==
    LET rise == st.prev_alt < MOON_UP /\ moon_alts(c, i) >= MOON_UP /\ st.m_rise_str = "-"
        set == /\ st.prev_alt >= MOON_UP /\ moon_alts(c, i) < MOON_UP
               /\ st.m_set_str = "-" /\ st.m_rise_str # "-"
    IN  [st EXCEPT
            !.m_rise_str = IF rise THEN strftime_HM(c.tz, times_list(c, i)) ELSE @,
            !.m_set_str = IF set THEN strftime_HM(c.tz, times_list(c, i)) ELSE @,
            !.prev_alt = moon_alts(c, i)]

\* the body of the moon rise/set loop
MoonBody(c, i, st) ==
    LET rise == st.prev_alt < MOON_UP /\ moon_alts(c, i) >= MOON_UP /\ st.m_rise_str = "-"
        set == st.prev_alt >= MOON_UP /\ moon_alts(c, i) < MOON_UP /\ st.m_set_str = "-"
    IN  [st EXCEPT
            !.m_rise_str = IF rise THEN strftime_HM(c.tz, times_list(c, i)) ELSE @,
            !.m_set_str = IF set THEN strftime_HM(c.tz, times_list(c, i)) ELSE @,
            !.prev_alt = moon_alts(c, i)]

RECURSIVE MoonLoop(_, _, _, _)
MoonLoop(c, lo, hi, st) ==
    IF hi <= lo THEN st
    ELSE IF hi = lo + 1 THEN MoonBody(c, lo, st)
    ELSE LET mid == (lo + hi) \div 2
             half == MoonLoop(c, lo, mid, st)
         IN  IF half.brk THEN half ELSE MoonLoop(c, mid, hi, half)

MoonRiseSet(c, N) ==
    MoonLoop(c, 1, N,
             [m_rise_str |-> "-", m_set_str |-> "-",
              prev_alt |-> moon_alts(c, 0), brk |-> FALSE])

\* moon_phase_icon giving the boundary at 22.5 degrees to the new moon
moon_phase_icon_closed(phase_deg) ==
    LET x == phase_deg % 720
    IN  IF x <= 45 \/ x >= 675 THEN "new"
        ELSE IF x < 135 THEN "waxing crescent"
        ELSE IF x < 225 THEN "first quarter"
        ELSE IF x < 315 THEN "waxing gibbous"
        ELSE IF x < 405 THEN "full"
        ELSE IF x < 495 THEN "waning gibbous"
        ELSE IF x < 585 THEN "last quarter"
        ELSE "waning crescent"

\* moon_phase_icon(phase_deg), the angle in half degrees; Python's % takes the
\* sign of the divisor, as TLA+'s does
moon_phase_icon(phase_deg) ==
    LET x == phase_deg % 720
    IN  IF x < 45 \/ x >= 675 THEN "new"
        ELSE IF x < 135 THEN "waxing crescent"
        ELSE IF x < 225 THEN "first quarter"
        ELSE IF x < 315 THEN "waxing gibbous"
        ELSE IF x < 405 THEN "full"
        ELSE IF x < 495 THEN "waning gibbous"
        ELSE IF x < 585 THEN "last quarter"
        ELSE "waning crescent"

\* f"{int(hrs)} Hours {int(mins)} Minutes", as the words str.split() gives
HoursText(minutes) ==
    <<ToString(minutes \div 60), "Hours", ToString(minutes % 60), "Minutes">>

\* int(s) of a decimal numeral
int(s) == CHOOSE n \in 0..(MAX_DAYS * DAY_MINUTES) : ToString(n) = s


(***************************************************************************)
(* The steps of compute_day_details that can raise.                        *)
(***************************************************************************)
\* lines 183-192: the zone used for the whole call
resolve_timezone(lookup) ==
    LET tz_name == IF lookup = NoZone THEN "UTC" ELSE lookup
        found == pytz_timezone(tz_name)
    IN  IF found.exc = "UnknownTimeZoneError"
        THEN [exc |-> "", local_tz |-> UTC, unknown |-> TRUE]
        ELSE [exc |-> found.exc, local_tz |-> found.value, unknown |-> FALSE]

\* day_window without the try/except around localize
day_window_uncaught(tz, date) ==
    LET local_mid == Naive(date, 0)
        local_next == local_mid + DAY_MINUTES
        start_aware == localize(tz, local_mid)
        end_aware == localize(tz, local_next)
    IN  [exc |-> IF start_aware.exc # "" THEN start_aware.exc ELSE end_aware.exc,
         fell_back |-> FALSE,
         start_utc |-> start_aware.value,
         end_utc |-> end_aware.value]

\* lines 223-234: local midnight and the next local midnight, as UTC instants
day_window(tz, date) ==
    LET local_mid == Naive(date, 0)
        local_next == local_mid + DAY_MINUTES
        start_aware == localize(tz, local_mid)
        end_aware == localize(tz, local_next)
    IN  IF start_aware.exc # "" \/ end_aware.exc # ""
        THEN [exc |-> "", fell_back |-> TRUE,
              start_utc |-> localize(UTC, local_mid).value,
              end_utc |-> localize(UTC, local_next).value]
        ELSE [exc |-> "", fell_back |-> FALSE,
              start_utc |-> start_aware.value,
              end_utc |-> end_aware.value]

\* lines 286-293: local noon as a UTC instant
noon_utc(tz, date) ==
    LET local_noon == Naive(date, 12 * 60)
        local_noon_aware == localize(tz, local_noon)
    IN  IF local_noon_aware.exc # ""
        THEN [exc |-> "", fell_back |-> TRUE, value |-> localize(UTC, local_noon).value]
        ELSE [exc |-> "", fell_back |-> FALSE, value |-> local_noon_aware.value]

\* lines 294-298: the phase angle at an instant, in half degrees
PhaseAngle(w, t) == (moon_ecl_lon(w, t) - sun_ecl_lon(w, t)) % 720

\* lines 236-309: the loop body from the grid to the record
DayDetails(w, tz, date, win, noon, step, moon_choice) ==
    LET times == TimesList(win.start_utc, step)
        c == [times_list |-> times, sun_alts |-> SunAlts(w, times),
              moon_alts |-> MoonAlts(w, times), step |-> step,
              moon_affect |-> moon_choice, tz |-> tz]
        N == Len(c.sun_alts)
        sums == Summation(c)
        dark == find_dark_crossings(c, N)
        moon == MoonRiseSet(c, N)
        angle == PhaseAngle(w, noon.value)
    IN  [astro_minutes |-> sums.astro_minutes,
         moonless_minutes |-> sums.moonless_minutes,
         phase_angle |-> angle,
         record |->
            [date |-> date,
             astro_dark_hours |-> HoursText(sums.astro_minutes),
             moonless_hours |-> HoursText(sums.moonless_minutes),
             dark_start |-> IF dark[1] # "" THEN dark[1] ELSE "-",
             dark_end |-> IF dark[2] # "" THEN dark[2] ELSE "-",
             moon_rise |-> moon.m_rise_str,
             moon_set |-> moon.m_set_str,
             moon_phase |-> moon_phase_icon(angle)]]


(***************************************************************************)
(* compute_day_details(lat, lon, start_date, end_date, moon_affect,        *)
(* step_minutes, progress_bar, token).                                     *)
(***************************************************************************)
\* debug_print assigning the message instead of appending it
debug_print_assign(console, msg) == <<msg>>

\* lines 68-71, DEBUG being True (line 9)
debug_print(console, msg) == Append(console, msg)

\* TotalDays without the last day
TotalDaysExclusive(first, last) == last - first

\* line 211
TotalDays(first, last) == (last - first) + 1

\* ReachedLimit one day late
ReachedLimitLate(count) == count > MAX_DAYS

\* line 213
ReachedLimit(count) == count >= MAX_DAYS

\* lines 179-211: up to the first test of the day loop
ComputeEnter ==
    /\ pc = "enter"
    /\ LET r == resolve_timezone(tz_lookup)
           c1 == debug_print(progress_console, "Loaded timescale & ephemeris")
           c2 == IF r.unknown THEN debug_print(c1, "Unknown timezone") ELSE c1
       IN  IF r.exc # ""
           THEN /\ pc' = "raised"
                /\ progress_console' = c1
                /\ UNCHANGED <<local_tz, day_results, day_count, current,
                               total_days, loop_index>>
           ELSE /\ pc' = "loop"
                /\ progress_console' = debug_print(c2, "Local Timezone")
                /\ local_tz' = r.local_tz
                /\ day_results' = <<>>
                /\ day_count' = 0
                /\ current' = start_date
                /\ total_days' = TotalDays(start_date, end_date)
                /\ loop_index' = 0
    /\ UNCHANGED <<entry, selected_dates, calculate_button, moon_affect,
                   step_minutes, tz_lookup, world, shown, start_date, end_date,
                   start_utc, end_utc, astro_minutes, moonless_minutes,
                   phase_angle, moon_phase, total_astro, total_moonless,
                   totals_shown, table>>

\* lines 212-315: one pass of the day loop
DayStep ==
    /\ pc = "loop"
    /\ loop_index < total_days
    /\ IF ReachedLimit(day_count)
       THEN /\ pc' = "break"
            /\ progress_console' =
                   debug_print(progress_console, "Reached maximum day limit")
            /\ UNCHANGED <<loop_index, day_count, current, start_utc, end_utc,
                           astro_minutes, moonless_minutes, phase_angle,
                           moon_phase, day_results>>
       ELSE LET win == day_window(local_tz, current)
                noon == noon_utc(local_tz, current)
                c1 == debug_print(progress_console, "Processing day")
                c2 == IF win.fell_back
                      THEN debug_print(c1, "Timezone localization error") ELSE c1
            IN  IF win.exc # "" \/ noon.exc # ""
                THEN /\ pc' = "raised"
                     /\ progress_console' = c1
                     /\ UNCHANGED <<loop_index, day_count, current, start_utc,
                                    end_utc, astro_minutes, moonless_minutes,
                                    phase_angle, moon_phase, day_results>>
                ELSE LET d == DayDetails(world, local_tz, current, win, noon,
                                         step_minutes, moon_affect)
                         c3 == debug_print(c2, "astro_hrs, astro_mins")
                         c4 == IF noon.fell_back
                               THEN debug_print(c3, "Timezone localization error for noon")
                               ELSE c3
                     IN  /\ pc' = "loop"
                         /\ progress_console' = c4
                         /\ start_utc' = win.start_utc
                         /\ end_utc' = win.end_utc
                         /\ astro_minutes' = d.astro_minutes
                         /\ moonless_minutes' = d.moonless_minutes
                         /\ phase_angle' = d.phase_angle
                         /\ moon_phase' = d.record.moon_phase
                         /\ day_results' = Append(day_results, d.record)
                         /\ current' = current + 1
                         /\ day_count' = day_count + 1
                         /\ loop_index' = loop_index + 1
    /\ UNCHANGED <<entry, selected_dates, calculate_button, moon_affect,
                   step_minutes, tz_lookup, world, shown, start_date, end_date,
                   local_tz, total_days, total_astro, total_moonless,
                   totals_shown, table>>

\* lines 317-321: after the loop
ComputeReturn ==
    /\ IF pc = "loop" THEN loop_index >= total_days ELSE pc = "break"
    /\ pc' = "returned"
    /\ progress_console' = debug_print(progress_console, "All calculations completed.")
    /\ UNCHANGED <<entry, selected_dates, calculate_button, moon_affect,
                   step_minutes, tz_lookup, world, shown, start_date, end_date,
                   local_tz, total_days, loop_index, day_count, current,
                   start_utc, end_utc, astro_minutes, moonless_minutes,
                   phase_angle, moon_phase, day_results, total_astro,
                   total_moonless, totals_shown, table>>

\* a call of moon_phase_icon(phase_angle) on its own
IconCall ==
    /\ pc = "icon"
    /\ pc' = "returned"
    /\ moon_phase' = moon_phase_icon(phase_angle)
    /\ UNCHANGED <<entry, selected_dates, calculate_button, moon_affect,
                   step_minutes, tz_lookup, world, progress_console, shown,
                   start_date, end_date, local_tz, total_days, loop_index,
                   day_count, current, start_utc, end_utc, astro_minutes,
                   moonless_minutes, phase_angle, day_results, total_astro,
                   total_moonless, totals_shown, table>>


(***************************************************************************)
(* main().                                                                 *)
(***************************************************************************)
\* lines 497-500 and 509: the two dates of the selection
FirstDate(sel) == sel[1]

SecondDate(sel) == IF Len(sel) >= 2 THEN sel[2] ELSE sel[1]

\* lines 501-504: the day-range check made on every run
RangeCheck ==
    /\ pc = "main"
    /\ LET start_d == FirstDate(selected_dates)
           end_d == SecondDate(selected_dates)
           delta_days == (end_d - start_d) + 1
       IN  IF delta_days > MAX_DAYS
           THEN /\ shown' = Append(shown, "error: Please pick MAX_DAYS days or fewer.")
                /\ pc' = "stopped"
           ELSE /\ pc' = "checked"
                /\ UNCHANGED shown
    /\ UNCHANGED <<entry, selected_dates, calculate_button, moon_affect,
                   step_minutes, tz_lookup, world, progress_console, start_date,
                   end_date, local_tz, total_days, loop_index, day_count,
                   current, start_utc, end_utc, astro_minutes, moonless_minutes,
                   phase_angle, moon_phase, day_results, total_astro,
                   total_moonless, totals_shown, table>>

\* CalculateOutcome without the validation of the two dates
CalculateOutcomeUnchecked(button, sd, ed) ==
    IF ~button THEN "idle" ELSE "compute"

\* lines 507-524: what the Calculate button leads to
CalculateOutcome(button, sd, ed) ==
    IF ~button THEN "idle"
    ELSE IF sd > ed THEN "order error"
    ELSE IF (ed - sd) + 1 > MAX_DAYS THEN "range warning"
    ELSE IF sd <= ed /\ (ed - sd) + 1 <= MAX_DAYS THEN "compute"
    ELSE "idle"

\* lines 507-545: the Calculate button, up to the call
Calculate ==
    /\ pc = "checked"
    /\ LET sd == FirstDate(selected_dates)
           ed == SecondDate(selected_dates)
           outcome == CalculateOutcome(calculate_button, sd, ed)
       IN  IF outcome = "order error"
           THEN /\ shown' = Append(shown, "error: Start date must be <= end date.")
                /\ pc' = "stopped"
                /\ UNCHANGED <<progress_console, start_date, end_date>>
           ELSE IF outcome = "range warning"
           THEN /\ shown' = Append(shown, "warning: Selected range exceeds MAX_DAYS days.")
                /\ pc' = "stopped"
                /\ UNCHANGED <<progress_console, start_date, end_date>>
           ELSE IF outcome = "compute"
           THEN /\ progress_console' = <<>>
                /\ start_date' = sd
                /\ end_date' = ed
                /\ pc' = "enter"
                /\ UNCHANGED shown
           ELSE /\ pc' = "end"
                /\ UNCHANGED <<shown, progress_console, start_date, end_date>>
    /\ UNCHANGED <<entry, selected_dates, calculate_button, moon_affect,
                   step_minutes, tz_lookup, world, local_tz, total_days,
                   loop_index, day_count, current, start_utc, end_utc,
                   astro_minutes, moonless_minutes, phase_angle, moon_phase,
                   day_results, total_astro, total_moonless, totals_shown, table>>

\* lines 559-566: what one day adds to the totals
ParsedMinutes(text) == int(text[1]) * 60 + int(text[3])

\* TotalOver leaving the first day out
RECURSIVE TotalOverSkipsFirst(_, _, _)
TotalOverSkipsFirst(daily_data, field, n) ==
    IF n <= 1 THEN 0
    ELSE TotalOverSkipsFirst(daily_data, field, n - 1)
            + ParsedMinutes(daily_data[n][field])

\* lines 555-566: the loop over daily_data
RECURSIVE TotalOver(_, _, _)
TotalOver(daily_data, field, n) ==
    IF n = 0 THEN 0
    ELSE TotalOver(daily_data, field, n - 1) + ParsedMinutes(daily_data[n][field])

\* lines 573-599: the result boxes
ResultBoxes(choice, astro, moonless) ==
    IF choice = "Include Moonlight"
    THEN << [title |-> "Total Astro Darkness",
             hours |-> astro \div 60, minutes |-> astro % 60],
            [title |-> "Moonless Astro Darkness",
             hours |-> moonless \div 60, minutes |-> moonless % 60] >>
    ELSE << [title |-> "Total Astro Darkness",
             hours |-> astro \div 60, minutes |-> astro % 60] >>

\* lines 547-617: after the call
Render ==
    /\ pc = "returned"
    /\ entry = "main"
    /\ IF day_results = <<>>
       THEN /\ shown' = Append(shown, "warning: No data??")
            /\ pc' = "stopped"
            /\ UNCHANGED <<total_astro, total_moonless, totals_shown, table>>
       ELSE LET ta == TotalOver(day_results, "astro_dark_hours", Len(day_results))
                tm == TotalOver(day_results, "moonless_hours", Len(day_results))
            IN  /\ total_astro' = ta
                /\ total_moonless' = tm
                /\ totals_shown' = ResultBoxes(moon_affect, ta, tm)
                /\ table' = day_results
                /\ pc' = "end"
                /\ UNCHANGED shown
    /\ UNCHANGED <<entry, selected_dates, calculate_button, moon_affect,
                   step_minutes, tz_lookup, world, progress_console, start_date,
                   end_date, local_tz, total_days, loop_index, day_count,
                   current, start_utc, end_utc, astro_minutes, moonless_minutes,
                   phase_angle, moon_phase, day_results>>

(***************************************************************************)
(* Initial states and specifications.                                      *)
(***************************************************************************)
\* what no call has set yet
Unset ==
    /\ progress_console = <<>>
    /\ shown = <<>>
    /\ local_tz = UTC
    /\ total_days = 0
    /\ loop_index = 0
    /\ day_count = 0
    /\ current = 0
    /\ start_utc = 0
    /\ end_utc = 0
    /\ astro_minutes = 0
    /\ moonless_minutes = 0
    /\ moon_phase = "-"
    /\ day_results = <<>>
    /\ total_astro = 0
    /\ total_moonless = 0
    /\ totals_shown = <<>>
    /\ table = <<>>

Worlds ==
    { [sun |-> s, moon |-> m, sun_lon |-> 0, moon_lon |-> 0] :
        s \in SunCurves, m \in MoonCurves }

\* the worlds of the runs over many days: dusk, night and dawn in every
\* day, the Moon up for a third of its cycle, and a phase angle that
\* passes 0 within the month
RangeWorlds ==
    { [sun |-> <<-17, -19, -18>>, moon |-> <<-1, 0, -1>>,
       sun_lon |-> 700, moon_lon |-> 10] }

\* the steps of the runs over many days
RangeSteps == {30}

Selections ==
    { <<s>> : s \in 1..MaxStart } \cup { <<s, e>> : s \in 1..MaxStart, e \in 1..MaxDate }

\* one run of the script
Init ==
    /\ entry = "main"
    /\ pc = "main"
    /\ selected_dates \in Selections
    /\ calculate_button \in BOOLEAN
    /\ moon_affect \in moon_options
    /\ step_minutes \in RangeSteps
    /\ tz_lookup \in TzLookups
    /\ world \in RangeWorlds
    /\ start_date = 0
    /\ end_date = 0
    /\ phase_angle = 0
    /\ Unset

Next == RangeCheck \/ Calculate \/ ComputeEnter \/ DayStep \/ ComputeReturn \/ Render

Spec == Init /\ [][Next]_vars

\* one call of compute_day_details with any two dates
InitCore ==
    /\ entry = "direct"
    /\ pc = "enter"
    /\ selected_dates = <<>>
    /\ calculate_button = FALSE
    /\ start_date \in 1..MaxStart
    /\ end_date \in 1..MaxDate
    /\ moon_affect = "Include Moonlight"
    /\ step_minutes \in RangeSteps
    /\ tz_lookup \in TzLookups
    /\ world \in RangeWorlds
    /\ phase_angle = 0
    /\ Unset

NextCore == ComputeEnter \/ DayStep \/ ComputeReturn

SpecCore == InitCore /\ [][NextCore]_vars

\* one call of compute_day_details in a session that has dates selected and
\* may hold the console output of an earlier run
InitFrame ==
    /\ entry = "direct"
    /\ pc = "enter"
    /\ selected_dates = <<1, 2>>
    /\ calculate_button = TRUE
    /\ start_date \in 1..MaxStart
    /\ end_date \in 1..MaxDate
    /\ moon_affect = "Include Moonlight"
    /\ step_minutes \in RangeSteps
    /\ tz_lookup \in {NoZone, "Unknown/Zone", "America/Havana"}
    /\ world \in RangeWorlds
    /\ phase_angle = 0
    /\ progress_console \in {<<>>, <<"output of an earlier run">>}
    /\ shown = <<>>
    /\ local_tz = UTC
    /\ total_days = 0
    /\ loop_index = 0
    /\ day_count = 0
    /\ current = 0
    /\ start_utc = 0
    /\ end_utc = 0
    /\ astro_minutes = 0
    /\ moonless_minutes = 0
    /\ moon_phase = "-"
    /\ day_results = <<>>
    /\ total_astro = 0
    /\ total_moonless = 0
    /\ totals_shown = <<>>
    /\ table = <<>>

SpecFrame == InitFrame /\ [][NextCore]_vars

\* one call of compute_day_details for one day, at every step, over every
\* altitude curve
InitDay ==
    /\ entry = "direct"
    /\ pc = "enter"
    /\ selected_dates = <<>>
    /\ calculate_button = FALSE
    /\ start_date = 1
    /\ end_date = 1
    /\ moon_affect \in moon_options
    /\ step_minutes \in step_options
    /\ tz_lookup = NoZone
    /\ world \in Worlds
    /\ phase_angle = 0
    /\ Unset

SpecDay == InitDay /\ [][NextCore]_vars

\* one call of moon_phase_icon
InitIcon ==
    /\ entry = "icon"
    /\ pc = "icon"
    /\ selected_dates = <<>>
    /\ calculate_button = FALSE
    /\ start_date = 0
    /\ end_date = 0
    /\ moon_affect = "Include Moonlight"
    /\ step_minutes = 1
    /\ tz_lookup = NoZone
    /\ world \in RangeWorlds
    /\ phase_angle \in (0 - MaxPhase)..MaxPhase
    /\ Unset

NextIcon == IconCall

SpecIcon == InitIcon /\ [][NextIcon]_vars


(***************************************************************************)
(* Properties of one day.  After a pass of the day loop the variables      *)
(* start_utc, astro_minutes and moonless_minutes are those of the day      *)
(* whose record is the last of day_results.                                *)
(***************************************************************************)
DayDone == pc \in {"loop", "break", "returned"} /\ day_count >= 1

LastRecord == day_results[Len(day_results)]

\* the samples of the last day
DayTimes == TimesList(start_utc, step_minutes)

DaySuns == SunAlts(world, DayTimes)

DayMoons == MoonAlts(world, DayTimes)

\* the adjacent pairs (k, k + 1) whose mean Sun altitude is below -18
\* degrees, and those whose mean Moon altitude is below 0 as well
DarkPairs(suns) == { k \in 1..(Len(suns) - 1) : suns[k] + suns[k + 1] < -36 }

MoonlessPairs(suns, moons) ==
    { k \in 1..(Len(suns) - 1) :
        suns[k] + suns[k + 1] < -36 /\ moons[k] + moons[k + 1] < 0 }

\* C1: every day record has 0 <= moonless_minutes <= astro_dark_minutes <= 1440,
\* in the loop's counters and in the hours and minutes the record holds.
C1_MinutesOrdered ==
    DayDone =>
        /\ 0 <= moonless_minutes
        /\ moonless_minutes <= astro_minutes
        /\ astro_minutes <= 1440
        /\ ParsedMinutes(LastRecord.astro_dark_hours) = astro_minutes
        /\ ParsedMinutes(LastRecord.moonless_hours) = moonless_minutes

C1_Witness ==
    /\ DayDone
    /\ 0 < moonless_minutes
    /\ moonless_minutes < astro_minutes
    /\ astro_minutes < 1440
    /\ step_minutes = 1

\* C2 as claimed: under "Include Moonlight" every day record has
\* moonless_minutes equal to astro_dark_minutes.
C2_IncludeKeepsAll ==
    (DayDone /\ moon_affect = "Include Moonlight") => moonless_minutes = astro_minutes

\* C2 as amended: it is under "Ignore Moonlight" that every day record has
\* moonless_minutes equal to astro_dark_minutes, whatever the Moon samples are.
C2_IgnoreKeepsAll ==
    (DayDone /\ moon_affect = "Ignore Moonlight") => moonless_minutes = astro_minutes

C2_Witness ==
    /\ DayDone
    /\ moon_affect = "Ignore Moonlight"
    /\ astro_minutes > 0
    /\ LET suns == DaySuns
           moons == DayMoons
       IN  MoonlessPairs(suns, moons) # DarkPairs(suns)

\* C3 as claimed: under "Ignore Moonlight" moonless_minutes is step_minutes
\* times the number of pairs with mean Sun altitude < -18 and mean Moon
\* altitude < 0.
C3_IgnoreCountsMoonless ==
    (DayDone /\ moon_affect = "Ignore Moonlight") =>
        LET suns == DaySuns
            moons == DayMoons
        IN  moonless_minutes = step_minutes * Cardinality(MoonlessPairs(suns, moons))

\* C3 as amended: it is under "Include Moonlight" that moonless_minutes is
\* step_minutes times the number of adjacent sample pairs whose mean Sun
\* altitude is < -18 and whose mean Moon altitude is < 0.
C3_IncludeCountsMoonless ==
    (DayDone /\ moon_affect = "Include Moonlight") =>
        LET suns == DaySuns
            moons == DayMoons
        IN  moonless_minutes = step_minutes * Cardinality(MoonlessPairs(suns, moons))

C3_Witness ==
    /\ DayDone
    /\ moon_affect = "Include Moonlight"
    /\ LET suns == DaySuns
           moons == DayMoons
           moonless == MoonlessPairs(suns, moons)
       IN  /\ moonless # {}
           /\ moonless # DarkPairs(suns)
           /\ \E k \in moonless : moons[k + 1] >= 0

\* C7: if every Sun sample of the day is >= -18 degrees, the record has
\* astro_dark_minutes = 0, dark_start = "-" and dark_end = "-", and the
\* call raises nothing.
C7_NeverDark ==
    /\ pc # "raised"
    /\ DayDone =>
        LET suns == DaySuns
        IN  (\A k \in 1..Len(suns) : suns[k] >= -18) =>
                /\ astro_minutes = 0
                /\ LastRecord.astro_dark_hours = <<"0", "Hours", "0", "Minutes">>
                /\ LastRecord.dark_start = "-"
                /\ LastRecord.dark_end = "-"

C7_Witness ==
    /\ pc = "returned"
    /\ day_count = 1
    /\ LastRecord.dark_start = "-"
    /\ LET suns == DaySuns
       IN  \A k \in 1..Len(suns) : suns[k] = -18


(***************************************************************************)
(* Properties of a call over a range of dates.                             *)
(***************************************************************************)
RangeLength == (end_date - start_date) + 1

Logged(msg) == \E k \in 1..Len(progress_console) : progress_console[k] = msg

\* C4 as claimed: for start_date <= end_date with more than MAX_DAYS days,
\* compute_day_details rejects the request before producing any day record.
C4_RejectsLongRange ==
    (pc \in {"loop", "break", "returned"} /\ RangeLength > MAX_DAYS) =>
        day_results = <<>>

\* C4 as amended: compute_day_details does not reject such a range: it
\* processes the first MAX_DAYS days, logs that it reached the limit and
\* returns their MAX_DAYS records, in order (main rejects before the call).
C4_TruncatesLongRange ==
    (pc = "returned" /\ RangeLength > MAX_DAYS) =>
        /\ Len(day_results) = MAX_DAYS
        /\ \A k \in 1..Len(day_results) : day_results[k].date = start_date + k - 1
        /\ Logged("Reached maximum day limit")

C4_Witness ==
    /\ pc = "returned"
    /\ RangeLength = MAX_DAYS + 1
    /\ Len(day_results) = MAX_DAYS
    /\ Logged("Reached maximum day limit")

\* C5: for start_date <= end_date the call returns exactly
\* min((end_date - start_date).days + 1, MAX_DAYS) records, and it never
\* processes more than MAX_DAYS days.
C5_DayCount ==
    /\ day_count <= MAX_DAYS
    /\ Len(day_results) <= MAX_DAYS
    /\ (pc = "returned" /\ start_date <= end_date) =>
            /\ day_count = Min(RangeLength, MAX_DAYS)
            /\ Len(day_results) = Min(RangeLength, MAX_DAYS)

C5_Witness ==
    /\ pc = "returned"
    /\ start_date <= end_date
    /\ RangeLength = MAX_DAYS
    /\ Len(day_results) = MAX_DAYS
    /\ ~Logged("Reached maximum day limit")

\* C10: a timezone failure never fails the call.  A lookup that returns
\* nothing or an unknown name makes UTC the zone; on a day whose local
\* midnight (or next midnight) cannot be localized the window is the UTC day,
\* and a local noon that cannot be localized is taken as noon UTC; nothing
\* is raised and every day processed gets its record, one for every day of a
\* range of up to MAX_DAYS days.
C10_TimezoneFallback ==
    /\ pc # "raised"
    /\ (pc \in {"loop", "break", "returned"} /\ tz_lookup \in {NoZone, "Unknown/Zone"})
            => local_tz = UTC
    /\ DayDone =>
        LET date == current - 1
            mid == localize(local_tz, Naive(date, 0))
            next == localize(local_tz, Naive(date + 1, 0))
            noon == localize(local_tz, Naive(date, 720))
        IN  /\ Len(day_results) = day_count
            /\ LastRecord.date = date
            /\ (mid.exc # "" \/ next.exc # "") =>
                    /\ start_utc = Naive(date, 0)
                    /\ end_utc = Naive(date + 1, 0)
            /\ noon.exc # "" =>
                    phase_angle = PhaseAngle(world, Naive(date, 720))
    /\ (pc = "returned" /\ start_date <= end_date /\ RangeLength <= MAX_DAYS) =>
            /\ Len(day_results) = RangeLength
            /\ \A k \in 1..Len(day_results) : day_results[k].date = start_date + k - 1

C10_Witness ==
    /\ pc = "returned"
    /\ tz_lookup = "America/Havana"
    /\ Logged("Timezone localization error")
    /\ start_date <= DstStartDate
    /\ end_date >= DstEndDate
    /\ Len(day_results) = RangeLength

(***************************************************************************)
(* Properties of one run of main.                                          *)
(***************************************************************************)
SelectedStart == FirstDate(selected_dates)

SelectedEnd == SecondDate(selected_dates)

SelectedLength == (SelectedEnd - SelectedStart) + 1

\* compute_day_details has been called in this run
Called == pc \in {"enter", "loop", "break", "raised", "returned"} \/ table # <<>>

RunOver == pc \in {"end", "stopped"}

\* C6 as claimed: whenever start_date > end_date or the range is longer than
\* MAX_DAYS, whatever the Calculate button, the run shows an error or warning
\* and stops, without a call and without a table; a call is made only with
\* the button pressed, start_date <= end_date and length <= MAX_DAYS.
C6_AlwaysRejects ==
    /\ Called => /\ calculate_button
                 /\ SelectedStart <= SelectedEnd
                 /\ SelectedLength <= MAX_DAYS
    /\ (RunOver /\ (SelectedStart > SelectedEnd \/ SelectedLength > MAX_DAYS)) =>
            /\ shown # <<>>
            /\ pc = "stopped"
            /\ table = <<>>

\* C6 as amended: a range longer than MAX_DAYS is refused with an error and
\* a stop whatever the button; start_date > end_date is refused with an
\* error and a stop when the button is pressed, and without the button the
\* run ends with nothing shown; in all these cases there is no call and no
\* table, and a call is made only with the button pressed,
\* start_date <= end_date and length <= MAX_DAYS.
C6_RejectsBeforeCall ==
    /\ Called => /\ calculate_button
                 /\ SelectedStart <= SelectedEnd
                 /\ SelectedLength <= MAX_DAYS
    /\ (SelectedStart > SelectedEnd \/ SelectedLength > MAX_DAYS) =>
            /\ ~Called
            /\ table = <<>>
            /\ totals_shown = <<>>
    /\ (RunOver /\ SelectedLength > MAX_DAYS) =>
            /\ pc = "stopped"
            /\ shown = <<"error: Please pick MAX_DAYS days or fewer.">>
    /\ (RunOver /\ SelectedStart > SelectedEnd /\ calculate_button) =>
            /\ pc = "stopped"
            /\ shown = <<"error: Start date must be <= end date.">>
    /\ (RunOver /\ SelectedStart > SelectedEnd /\ ~calculate_button) =>
            /\ pc = "end"
            /\ shown = <<>>

C6_Witness ==
    /\ pc = "stopped"
    /\ calculate_button
    /\ SelectedStart > SelectedEnd
    /\ shown = <<"error: Start date must be <= end date.">>
    /\ table = <<>>

\* the minutes of day k of the range, counted over its sample pairs
ExpectedMinutes(k) ==
    LET date == start_date + k - 1
        times == TimesList(day_window(local_tz, date).start_utc, step_minutes)
        suns == SunAlts(world, times)
        moons == MoonAlts(world, times)
        astro == step_minutes * Cardinality(DarkPairs(suns))
    IN  [astro |-> astro,
         moonless |-> IF moon_affect = "Ignore Moonlight" THEN astro
                      ELSE step_minutes * Cardinality(MoonlessPairs(suns, moons))]

RECURSIVE SumOver(_, _, _)
SumOver(days, field, n) ==
    IF n = 0 THEN 0 ELSE SumOver(days, field, n - 1) + days[n][field]

\* C9: the totals main shows are the sums over the returned day records of
\* the day's astro_dark_minutes and of its moonless_minutes: the text
\* "H Hours M Minutes" of each day parses back to the day's minutes, every
\* day is added once, and the hours and minutes displayed make up the sum.
C9_TotalsAreSums ==
    (pc = "end" /\ table # <<>>) =>
        LET n == Len(day_results)
            days == [k \in 1..n |-> ExpectedMinutes(k)]
            astro == SumOver(days, "astro", n)
            moonless == SumOver(days, "moonless", n)
        IN  /\ table = day_results
            /\ \A k \in 1..n :
                /\ ParsedMinutes(table[k].astro_dark_hours) = days[k].astro
                /\ ParsedMinutes(table[k].moonless_hours) = days[k].moonless
            /\ total_astro = astro
            /\ total_moonless = moonless
            /\ totals_shown[1].hours * 60 + totals_shown[1].minutes = astro
            /\ totals_shown[1].minutes \in 0..59
            /\ moon_affect = "Include Moonlight" =>
                /\ totals_shown[2].hours * 60 + totals_shown[2].minutes = moonless
                /\ totals_shown[2].minutes \in 0..59

C9_Witness ==
    /\ pc = "end"
    /\ Len(table) >= 3
    /\ \E k \in 2..Len(table) : table[k].astro_dark_hours # table[1].astro_dark_hours
    /\ total_astro > DAY_MINUTES
    /\ total_astro % 60 # 0
    /\ 0 < total_moonless
    /\ total_moonless < total_astro

(***************************************************************************)
(* Properties of moon_phase_icon.                                          *)
(***************************************************************************)
Icons == << "new", "waxing crescent", "first quarter", "waxing gibbous",
            "full", "waning gibbous", "last quarter", "waning crescent" >>

\* C8: moon_phase_icon answers for every angle with one of the 8 icons, the
\* icon k (k = 0..7) exactly for the angles that lie, modulo 360 degrees, in
\* [45k - 22.5, 45k + 22.5): a boundary belongs to the bucket above it, and
\* 0 and 359 degrees are the new moon.  Angles are in half degrees.
C8_IconBuckets ==
    (pc = "returned" /\ entry = "icon") =>
        LET x == phase_angle % 720
        IN  /\ \E k \in 0..7 :
                /\ moon_phase = Icons[k + 1]
                /\ \E r \in {x, x - 720} : 90 * k - 45 <= r /\ r < 90 * k + 45
            /\ \A k \in 0..7 :
                (\E r \in {x, x - 720} : 90 * k - 45 <= r /\ r < 90 * k + 45)
                    => moon_phase = Icons[k + 1]
            /\ x \in {0, 718} => moon_phase = "new"

C8_Witness ==
    /\ pc = "returned"
    /\ entry = "icon"
    /\ phase_angle = 45 - 720
    /\ moon_phase = "waxing crescent"

(***************************************************************************)
(* The effects of a call on the session.                                   *)
(***************************************************************************)
\* the session state and the inputs of the run that the call is given or
\* could reach, the console apart
SessionOutsideConsole ==
    <<selected_dates, calculate_button, moon_affect, step_minutes, tz_lookup,
      world, shown, totals_shown, table>>

\* C11 as claimed: no step of a call of compute_day_details changes the
\* session state: progress_console, the selected dates and the location are
\* after the call what they were before it.
C11_CallChangesNothing ==
    [][UNCHANGED <<progress_console, SessionOutsideConsole>>]_vars

\* C11 as amended: a call of compute_day_details leaves the session state
\* other than progress_console unchanged, and it only appends to
\* progress_console: what the console held before every step is still its
\* beginning after the step.
C11_CallOnlyAppends ==
    [][/\ UNCHANGED SessionOutsideConsole
       /\ Len(progress_console') >= Len(progress_console)
       /\ SubSeq(progress_console', 1, Len(progress_console)) = progress_console]_vars

C11_Witness ==
    /\ pc = "returned"
    /\ Len(progress_console) >= 5
    /\ progress_console[1] = "output of an earlier run"
    /\ progress_console[Len(progress_console)] = "All calculations completed."
    /\ selected_dates = <<1, 2>>

(***************************************************************************)
(* The crossings of a day, by the positions of the sample pairs.  Pair i   *)
(* is the samples i and i + 1 of the sequences, counted from 1.            *)
(***************************************************************************)
First(S) == CHOOSE i \in S : \A j \in S : i <= j

\* the pairs going from >= -18 to < -18, and those going back
DuskPairs(suns) ==
    { i \in 1..(Len(suns) - 1) : suns[i] >= -18 /\ suns[i + 1] < -18 }

DawnPairs(suns) ==
    { i \in 1..(Len(suns) - 1) : suns[i] < -18 /\ suns[i + 1] >= -18 }

\* the local time of the later sample of pair i
LaterSample(times, i) == strftime_HM(local_tz, times[i + 1])

\* C12 as claimed: dark_start is the later sample of the first pair going
\* below -18; dark_end is the later sample of the first pair going back that
\* comes after the dark_start pair; each is "-" when there is no such pair,
\* so that dark_end is never the time of a sample before that of dark_start.
C12_EndAfterStart ==
    DayDone =>
        LET suns == DaySuns
            times == DayTimes
            dusk == DuskPairs(suns)
            after == IF dusk = {} THEN {}
                     ELSE { j \in DawnPairs(suns) : j > First(dusk) }
        IN  /\ LastRecord.dark_start =
                    IF dusk = {} THEN "-" ELSE LaterSample(times, First(dusk))
            /\ LastRecord.dark_end =
                    IF after = {} THEN "-" ELSE LaterSample(times, First(after))

\* C12 as amended: dark_start as claimed; dark_end is "-" when there is no
\* dark_start; otherwise it is the later sample of the first pair going back
\* above -18 after the dark_start pair, and when there is none after it, of
\* the first such pair of the whole window, which then lies before
\* dark_start (the dawn of the morning stands for that of the next day); it
\* is "-" when the window has no such pair at all.
C12_EndAfterStartOrFromWindowStart ==
    DayDone =>
        LET suns == DaySuns
            times == DayTimes
            dusk == DuskPairs(suns)
            dawn == DawnPairs(suns)
            after == IF dusk = {} THEN {} ELSE { j \in dawn : j > First(dusk) }
        IN  /\ LastRecord.dark_start =
                    IF dusk = {} THEN "-" ELSE LaterSample(times, First(dusk))
            /\ LastRecord.dark_end =
                    IF dusk = {} THEN "-"
                    ELSE IF after # {} THEN LaterSample(times, First(after))
                    ELSE IF dawn # {} THEN LaterSample(times, First(dawn))
                    ELSE "-"

C12_Witness ==
    /\ DayDone
    /\ LET suns == DaySuns
           dusk == DuskPairs(suns)
           dawn == DawnPairs(suns)
       IN  /\ dusk # {}
           /\ dawn # {}
           /\ \A j \in dawn : j < First(dusk)
           /\ LastRecord.dark_end = LaterSample(DayTimes, First(dawn))
           /\ LastRecord.dark_end # "-"
           /\ LastRecord.dark_start # LastRecord.dark_end

(***************************************************************************)
(* The sample grid of a day.                                               *)
(***************************************************************************)
\* C13: the grid of every day starts at window_start (start_utc), has its
\* samples step_minutes apart, has 24*60/step_minutes + 1 of them, and its
\* last sample is at or after window_end (end_utc), so that it covers the
\* local day from midnight to midnight, also on a day of 23 or of 25 hours.
C13_GridCoversWindow ==
    DayDone =>
        LET times == DayTimes
        IN  /\ times[1] = start_utc
            /\ \A k \in 1..(Len(times) - 1) : times[k + 1] - times[k] = step_minutes
            /\ Len(times) = (DAY_MINUTES \div step_minutes) + 1
            /\ times[Len(times)] >= end_utc

(***************************************************************************)
(* Moon rise and set of a day.                                             *)
(***************************************************************************)
\* the pairs going from < 0 to >= 0, and those going from >= 0 to < 0
RisePairs(moons) ==
    { i \in 1..(Len(moons) - 1) : moons[i] < 0 /\ moons[i + 1] >= 0 }

SetPairs(moons) ==
    { i \in 1..(Len(moons) - 1) : moons[i] >= 0 /\ moons[i + 1] < 0 }

\* C14: moon_rise is the local time of the later sample of the first pair
\* going from < 0 to >= 0 and moon_set that of the first pair going from
\* >= 0 to < 0, each found whatever the other is (the set may come before
\* the rise), and each is "-" exactly when the window has no such pair.
C14_MoonRiseSet ==
    DayDone =>
        LET moons == DayMoons
            times == DayTimes
            rise == RisePairs(moons)
            set == SetPairs(moons)
        IN  /\ LastRecord.moon_rise =
                    IF rise = {} THEN "-" ELSE LaterSample(times, First(rise))
            /\ LastRecord.moon_set =
                    IF set = {} THEN "-" ELSE LaterSample(times, First(set))
            /\ (LastRecord.moon_rise = "-") <=> (rise = {})
            /\ (LastRecord.moon_set = "-") <=> (set = {})

C14_Witness ==
    /\ DayDone
    /\ LET moons == DayMoons
           rise == RisePairs(moons)
           set == SetPairs(moons)
       IN  /\ rise # {}
           /\ set # {}
           /\ First(set) < First(rise)
           /\ LastRecord.moon_set = LaterSample(DayTimes, First(set))
           /\ LastRecord.moon_rise = LaterSample(DayTimes, First(rise))
           /\ LastRecord.moon_set # LastRecord.moon_rise

(***************************************************************************)
(* The dark minutes of a day.                                              *)
(***************************************************************************)
\* C15: astro_dark_minutes of a day is step_minutes times the number of
\* adjacent sample pairs whose mean Sun altitude is strictly below -18, the
\* mean of the two samples and not one of them alone deciding, under either
\* moon-handling option; if every Sun sample is below -18 the whole window
\* is dark, 1440 minutes.
C15_AstroCountsMeans ==
    DayDone =>
        LET suns == DaySuns
            dark == step_minutes * Cardinality(DarkPairs(suns))
        IN  /\ astro_minutes = dark
            /\ ParsedMinutes(LastRecord.astro_dark_hours) = dark
            /\ (\A k \in 1..Len(suns) : suns[k] < -18) => astro_minutes = DAY_MINUTES

C15_Witness ==
    /\ DayDone
    /\ moon_affect = "Include Moonlight"
    /\ step_minutes = 15
    /\ LET suns == DaySuns
       IN  /\ \E i \in DarkPairs(suns) : suns[i] = -18 /\ suns[i + 1] = -19
           /\ \E i \in DarkPairs(suns) : suns[i] = -19 /\ suns[i + 1] = -18
           /\ astro_minutes = 15 * Cardinality(DarkPairs(suns))
    /\ moonless_minutes < astro_minutes
    /\ astro_minutes < DAY_MINUTES

=============================================================================
